---- MODULE Spec2Model ----
(***************************************************************************)
(* Model of tktts (src/src/main.rs): the text segmenter split_text and the *)
(* parallel fetch / reassembly pipeline process_tts.                       *)
(*                                                                         *)
(* A text is a sequence of characters; a character is a one-element        *)
(* string, or the code point name ("U+2014") of a non-ASCII character.     *)
(* Rust's str::len is the UTF-8 byte length, modelled by ByteLen.          *)
(***************************************************************************)
EXTENDS Integers, Sequences, FiniteSets, TLC

VARIABLES
    \* ---- split_text
    text,                 \* argument `text` of split_text / process_tts
    byte_limit,           \* argument `byte_limit` of split_text
    separated_chunks,     \* units of the regex scan not yet processed
    words,                \* words of the oversized unit not yet processed
    merged_chunks,        \* main.rs:41
    current_chunk,        \* main.rs:42
    current_byte_length,  \* main.rs:43
    spc,                  \* position inside split_text
    \* ---- process_tts
    url_only,             \* argument `url_only`
    env,                  \* the process environment (after dotenv)
    env_read,             \* environment variables read so far
    pc,                   \* position inside process_tts
    chunks,               \* main.rs:186
    next_index,           \* position of the spawn loop, main.rs:197
    tasks,                \* per index: the spawned task and what became of it
    completed,            \* finished tasks the JoinSet has not handed out yet
    join_order,           \* indexes in the order join_next() handed them out
    audio_chunks,         \* main.rs:194
    concatenated_base64,  \* main.rs:245
    stdout,               \* bytes written by write_all, main.rs:255
    printed,              \* lines written by println!, main.rs:175
    ret                   \* what process_tts returned

splitVars == <<text, byte_limit, separated_chunks, words, merged_chunks,
               current_chunk, current_byte_length, spc>>

ttsVars == <<url_only, env, env_read, pc, chunks, next_index, tasks,
             completed, join_order, audio_chunks, concatenated_base64,
             stdout, printed, ret>>

vars == <<splitVars, ttsVars>>

\* ------------------------------------------------------------------ bounds
MaxLen == 6
MaxLimit == 4
MaxSentences == 3

\* -------------------------------------------------------------- characters
NL == "\n"
TAB == "\t"
EmDash == "U+2014"
Ellipsis == "U+2026"
AUmlaut == "U+00E4"
OUmlaut == "U+00F6"
UUmlaut == "U+00FC"
Eszett == "U+00DF"

\* UTF-8 width of one character
CharLen(c) ==
    IF c \in {EmDash, Ellipsis} THEN 3
    ELSE IF c \in {AUmlaut, OUmlaut, UUmlaut, Eszett} THEN 2
    ELSE 1

\* str::len(): UTF-8 byte length
RECURSIVE ByteLen(_)
ByteLen(s) ==
    IF Len(s) = 0 THEN 0
    ELSE IF Len(s) = 1 THEN CharLen(s[1])
    ELSE LET h == Len(s) \div 2
         IN  ByteLen(SubSeq(s, 1, h)) + ByteLen(SubSeq(s, h + 1, Len(s)))

\* char::is_whitespace for the characters of the model
IsWhitespace(c) == c \in {" ", NL, TAB}

\* the character class of punctuation_regex
PunctuationClass ==
    {".", ",", "!", "?", ":", ";", "-", EmDash, Ellipsis,
     "(", ")", "{", "}", "<", ">", "[", "]", NL}

SetMin(S) == CHOOSE x \in S : \A y \in S : x <= y
SetMax(S) == CHOOSE x \in S : \A y \in S : x >= y

\* `.` of the regex: any character but a line feed
Dot(c) == c # NL

\* ends of the matches of  .*?[class]  that start at p
LazyAltEnds(s, p) ==
    {q \in p..Len(s) : s[q] \in PunctuationClass
                       /\ \A k \in p..(q - 1) : Dot(s[k])}

\* ends of the matches of  .+  that start at p
GreedyAltEnds(s, p) ==
    {q \in p..Len(s) : \A k \in p..q : Dot(s[k])}

\* the second alternative is `.` instead of `.+`
MatchEnd_OneChar(s, p) ==
    IF LazyAltEnds(s, p) # {} THEN SetMin(LazyAltEnds(s, p))
    ELSE IF GreedyAltEnds(s, p) # {} THEN p
    ELSE 0

\* end of the match of punctuation_regex at p, 0 when there is none:
\* the first alternative is preferred, lazily; the second is greedy
MatchEnd(s, p) ==
    IF LazyAltEnds(s, p) # {} THEN SetMin(LazyAltEnds(s, p))
    ELSE IF GreedyAltEnds(s, p) # {} THEN SetMax(GreedyAltEnds(s, p))
    ELSE 0

\* punctuation_regex.find_iter(text): successive non-overlapping matches
RECURSIVE find_iter(_, _)
find_iter(s, p) ==
    IF p > Len(s) THEN <<>>
    ELSE LET e == MatchEnd(s, p)
         IN  IF e = 0 THEN find_iter(s, p + 1)
             ELSE <<SubSeq(s, p, e)>> \o find_iter(s, e + 1)

\* str::split_whitespace(): the maximal whitespace-free runs, in order
RECURSIVE split_whitespace(_)
split_whitespace(s) ==
    LET starts == {p \in 1..Len(s) : ~IsWhitespace(s[p])}
    IN  IF starts = {} THEN <<>>
        ELSE LET p == SetMin(starts)
                 q == SetMax({e \in p..Len(s) :
                                \A k \in p..e : ~IsWhitespace(s[k])})
             IN  <<SubSeq(s, p, q)>> \o split_whitespace(SubSeq(s, q + 1, Len(s)))

\* ------------------------------------------------- the accumulate/flush loop
Acc(m, c, n) ==
    [merged_chunks |-> m, current_chunk |-> c, current_byte_length |-> n]

\* the push without the `is_empty` test
Flush_Unconditional(acc) == Append(acc.merged_chunks, acc.current_chunk)

\* merged_chunks.push(current_chunk.clone()) under `!current_chunk.is_empty()`
Flush(acc) ==
    IF acc.current_chunk # <<>>
    THEN Append(acc.merged_chunks, acc.current_chunk)
    ELSE acc.merged_chunks

\* the join space is not counted in the fit test
push_word_NoSpaceCount(acc, word, limit) ==
    LET word_byte_length == ByteLen(word)
    IN  IF acc.current_byte_length + word_byte_length > limit
        THEN Acc(Flush(acc), word, word_byte_length)
        ELSE IF acc.current_chunk # <<>>
             THEN Acc(acc.merged_chunks,
                      acc.current_chunk \o <<" ">> \o word,
                      acc.current_byte_length + word_byte_length + 1)
             ELSE Acc(acc.merged_chunks, word, word_byte_length)

\* the counter is not advanced for the join space
push_word_JoinNotCounted(acc, word, limit) ==
    LET word_byte_length == ByteLen(word)
    IN  IF acc.current_byte_length + word_byte_length + 1 > limit
        THEN Acc(Flush(acc), word, word_byte_length)
        ELSE IF acc.current_chunk # <<>>
             THEN Acc(acc.merged_chunks,
                      acc.current_chunk \o <<" ">> \o word,
                      acc.current_byte_length + word_byte_length)
             ELSE Acc(acc.merged_chunks, word, word_byte_length)

\* body of `for word in words`
push_word(acc, word, limit) ==
    LET word_byte_length == ByteLen(word)
    IN  IF acc.current_byte_length + word_byte_length + 1 > limit
        THEN Acc(Flush(acc), word, word_byte_length)
        ELSE IF acc.current_chunk # <<>>
             THEN Acc(acc.merged_chunks,
                      acc.current_chunk \o <<" ">> \o word,
                      acc.current_byte_length + word_byte_length + 1)
             ELSE Acc(acc.merged_chunks, word, word_byte_length)

\* the pending segment is overwritten without being pushed
push_unit_DropsPending(acc, chunk, limit) ==
    LET chunk_byte_length == ByteLen(chunk)
    IN  IF acc.current_byte_length + chunk_byte_length > limit
        THEN Acc(acc.merged_chunks, chunk, chunk_byte_length)
        ELSE Acc(acc.merged_chunks,
                 acc.current_chunk \o chunk,
                 acc.current_byte_length + chunk_byte_length)

\* a unit that fills the segment exactly is flushed (`>=` for `>`)
push_unit_FlushOnEqual(acc, chunk, limit) ==
    LET chunk_byte_length == ByteLen(chunk)
    IN  IF acc.current_byte_length + chunk_byte_length >= limit
        THEN Acc(Flush(acc), chunk, chunk_byte_length)
        ELSE Acc(acc.merged_chunks,
                 acc.current_chunk \o chunk,
                 acc.current_byte_length + chunk_byte_length)

\* else-branch of the loop body: a unit that is within the limit on its own
push_unit(acc, chunk, limit) ==
    LET chunk_byte_length == ByteLen(chunk)
    IN  IF acc.current_byte_length + chunk_byte_length > limit
        THEN Acc(Flush(acc), chunk, chunk_byte_length)
        ELSE Acc(acc.merged_chunks,
                 acc.current_chunk \o chunk,
                 acc.current_byte_length + chunk_byte_length)

RECURSIVE push_words(_, _, _)
push_words(acc, ws, limit) ==
    IF ws = <<>> THEN acc
    ELSE push_words(push_word(acc, Head(ws), limit), Tail(ws), limit)

\* body of `for chunk in separated_chunks`
push_chunk(acc, chunk, limit) ==
    IF ByteLen(chunk) > limit
    THEN push_words(acc, split_whitespace(chunk), limit)
    ELSE push_unit(acc, chunk, limit)

RECURSIVE push_chunks(_, _, _)
push_chunks(acc, cs, limit) ==
    IF cs = <<>> THEN acc
    ELSE push_chunks(push_chunk(acc, Head(cs), limit), Tail(cs), limit)

\* the trailing flush and the return value
final_flush(acc) == Flush(acc)

split_text(t, limit) ==
    final_flush(push_chunks(Acc(<<>>, <<>>, 0), find_iter(t, 1), limit))

\* ------------------------------------------------ split_text, step by step
Alphabet == {"a", " ", ".", NL, EmDash}

BoundedTexts == UNION {[1..k -> Alphabet] : k \in 0..MaxLen}

ByteLimits == 1..MaxLimit

\* "A. B. C." with limit 5, and a text with a tab between two words
ScenarioABC == <<"A", ".", " ", "B", ".", " ", "C", ".">>
ScenarioTab == <<"a", TAB, "b", " ", "c">>

SplitInputs ==
    (BoundedTexts \X ByteLimits)
        \cup {<<ScenarioABC, 5>>}
        \cup ({ScenarioTab} \X ByteLimits)

CurAcc == Acc(merged_chunks, current_chunk, current_byte_length)

SetAcc(acc) ==
    /\ merged_chunks' = acc.merged_chunks
    /\ current_chunk' = acc.current_chunk
    /\ current_byte_length' = acc.current_byte_length

\* process_tts not called
TtsIdle ==
    /\ url_only = FALSE
    /\ env = [TIKTOK_SESSIONID |-> "unset", TIKTOK_API_BASEURL |-> "unset"]
    /\ env_read = {}
    /\ pc = "idle"
    /\ chunks = <<>>
    /\ next_index = 0
    /\ tasks = <<>>
    /\ completed = <<>>
    /\ join_order = <<>>
    /\ audio_chunks = <<>>
    /\ concatenated_base64 = <<>>
    /\ stdout = <<>>
    /\ printed = <<>>
    /\ ret = [status |-> "pending", err |-> ""]

SplitInit ==
    /\ \E in \in SplitInputs : text = in[1] /\ byte_limit = in[2]
    /\ separated_chunks = <<>>
    /\ words = <<>>
    /\ merged_chunks = <<>>
    /\ current_chunk = <<>>
    /\ current_byte_length = 0
    /\ spc = "scan"
    /\ TtsIdle

\* main.rs:46-52
ScanText ==
    /\ spc = "scan"
    /\ separated_chunks' = find_iter(text, 1)
    /\ spc' = "loop"
    /\ UNCHANGED <<text, byte_limit, words, merged_chunks, current_chunk,
                   current_byte_length>>
    /\ UNCHANGED ttsVars

\* main.rs:57-59: an oversized unit is cut into its words
SplitUnit ==
    /\ spc = "loop"
    /\ separated_chunks # <<>>
    /\ ByteLen(Head(separated_chunks)) > byte_limit
    /\ words' = split_whitespace(Head(separated_chunks))
    /\ separated_chunks' = Tail(separated_chunks)
    /\ spc' = IF words' = <<>> THEN "loop" ELSE "words"
    /\ UNCHANGED <<text, byte_limit, merged_chunks, current_chunk,
                   current_byte_length>>
    /\ UNCHANGED ttsVars

\* main.rs:60-82: one iteration of the word loop
ProcessWord ==
    /\ spc = "words"
    /\ words # <<>>
    /\ SetAcc(push_word(CurAcc, Head(words), byte_limit))
    /\ words' = Tail(words)
    /\ spc' = IF words' = <<>> THEN "loop" ELSE "words"
    /\ UNCHANGED <<text, byte_limit, separated_chunks>>
    /\ UNCHANGED ttsVars

\* main.rs:83-98: one iteration of the unit loop for a unit within the limit
ProcessUnit ==
    /\ spc = "loop"
    /\ separated_chunks # <<>>
    /\ ByteLen(Head(separated_chunks)) <= byte_limit
    /\ SetAcc(push_unit(CurAcc, Head(separated_chunks), byte_limit))
    /\ separated_chunks' = Tail(separated_chunks)
    /\ UNCHANGED <<text, byte_limit, words, spc>>
    /\ UNCHANGED ttsVars

\* main.rs:101-109
FinalFlush ==
    /\ spc = "loop"
    /\ separated_chunks = <<>>
    /\ merged_chunks' = final_flush(CurAcc)
    /\ spc' = "done"
    /\ UNCHANGED <<text, byte_limit, separated_chunks, words, current_chunk,
                   current_byte_length>>
    /\ UNCHANGED ttsVars

SplitNext ==
    \/ ScanText
    \/ SplitUnit
    \/ ProcessWord
    \/ ProcessUnit
    \/ FinalFlush

SplitSpec == SplitInit /\ [][SplitNext]_vars

\* the step machine computes split_text
SplitAgrees == spc = "done" => merged_chunks = split_text(text, byte_limit)

\* ------------------------------------------------------------ sanitize_text
\* str::replace of one character by a string
RECURSIVE replace(_, _, _)
replace(s, from, to) ==
    IF Len(s) = 0 THEN <<>>
    ELSE IF Len(s) = 1 THEN (IF s[1] = from THEN to ELSE s)
    ELSE LET h == Len(s) \div 2
         IN  replace(SubSeq(s, 1, h), from, to)
                 \o replace(SubSeq(s, h + 1, Len(s)), from, to)

sanitize_text(t) ==
    replace(replace(replace(replace(replace(replace(t,
        "+", <<"p", "l", "u", "s">>),
        "&", <<"a", "n", "d">>),
        AUmlaut, <<"a", "e">>),
        OUmlaut, <<"o", "e">>),
        UUmlaut, <<"u", "e">>),
        Eszett, <<"s", "s">>)

\* ------------------------------------------------------------------ base64
B64Chars ==
    <<"A", "B", "C", "D", "E", "F", "G", "H", "I", "J", "K", "L", "M",
      "N", "O", "P", "Q", "R", "S", "T", "U", "V", "W", "X", "Y", "Z",
      "a", "b", "c", "d", "e", "f", "g", "h", "i", "j", "k", "l", "m",
      "n", "o", "p", "q", "r", "s", "t", "u", "v", "w", "x", "y", "z",
      "0", "1", "2", "3", "4", "5", "6", "7", "8", "9", "+", "/">>

IsB64(c) == \E i \in 1..Len(B64Chars) : B64Chars[i] = c

B64Val(c) == (CHOOSE i \in 1..Len(B64Chars) : B64Chars[i] = c) - 1

\* number of "=" at the end of s
PadCount(s) ==
    SetMax({k \in 0..Len(s) : \A j \in (Len(s) - k + 1)..Len(s) : s[j] = "="})

\* the bytes of the complete and the final partial group of symbols
RECURSIVE DecodeBody(_)
DecodeBody(b) ==
    IF Len(b) = 0 THEN <<>>
    ELSE IF Len(b) = 2
    THEN LET v == B64Val(b[1]) * 64 + B64Val(b[2])
         IN  <<v \div 16>>
    ELSE IF Len(b) = 3
    THEN LET v == B64Val(b[1]) * 4096 + B64Val(b[2]) * 64 + B64Val(b[3])
         IN  <<v \div 1024, (v \div 4) % 256>>
    ELSE LET v == B64Val(b[1]) * 262144 + B64Val(b[2]) * 4096
                    + B64Val(b[3]) * 64 + B64Val(b[4])
         IN  <<v \div 65536, (v \div 256) % 256, v % 256>>
                 \o DecodeBody(SubSeq(b, 5, Len(b)))

\* general_purpose::STANDARD.decode: canonical padding is required, padding
\* is legal only at the end, and the unused bits of the last symbol are zero
decode(s) ==
    LET pads == PadCount(s)
        body == SubSeq(s, 1, Len(s) - pads)
        rem  == Len(body) % 4
        last == B64Val(body[Len(body)])
        valid ==
            /\ \A k \in 1..Len(body) : IsB64(body[k])
            /\ \/ rem = 0 /\ pads = 0
               \/ rem = 2 /\ pads = 2 /\ last % 16 = 0
               \/ rem = 3 /\ pads = 1 /\ last % 4 = 0
    IN  IF valid THEN [ok |-> TRUE, bytes |-> DecodeBody(body)]
        ELSE [ok |-> FALSE, bytes |-> <<>>]

\* ------------------------------------------------------- request_tts_chunk
BYTE_LIMIT == 300
API_BASE_URL == "/media/api/text/speech/invoke/"
DefaultSpeaker == "en_us_002"

\* Option<T>: None is the empty sequence, Some(v) the one-element sequence
None == <<>>
Some(v) == <<v>>

\* a JSON object without a "message" field
NoMessage == "(no message)"

CouldNotLoad == "Couldn't load speech. Try again."
ErrInvalidSession == "Invalid TikTok Session ID or API error."
ErrMissingVStr == "Missing v_str in response"
ErrSomeFailed == "Some audio chunks failed to generate"
ErrNoSession == "TIKTOK_SESSIONID environment variable not set. Please set it in .env file or export it."
ErrNoRoot == "Invalid API root URL"
ErrUrlParse == "relative URL without a base"
ErrTransport == "error sending request"
ErrDecode == "base64 DecodeError"

\* values of TIKTOK_API_BASEURL: one with a scheme, one without
GoodRoot == "https://api.tiktokv.example"
BadRoot == "api.tiktokv.example"

\* Url::parse of  root ++ path : an absolute URL needs a scheme
UrlParse(root, path) ==
    IF root = GoodRoot
    THEN [ok |-> TRUE, val |-> [root |-> root, path |-> path, query |-> <<>>]]
    ELSE [ok |-> FALSE, err |-> ErrUrlParse]

\* query_pairs_mut().append_pair(..) x 4
AppendPairs(url, speaker, sanitized_text) ==
    [url EXCEPT !.query = <<
        <<"text_speaker", speaker>>,
        <<"req_text", sanitized_text>>,
        <<"speaker_map_type", "0">>,
        <<"aid", "1233">> >>]

\* what the service can answer to one request
SendError == [kind |-> "send_error"]
JsonReply(m, v) == [kind |-> "json", message |-> m, v_str |-> v]

PayloadPadded == <<"Q", "Q", "=", "=">>
PayloadFull == <<"Q", "U", "J", "D">>
PayloadTruncated == <<"Q", "Q">>
Payloads == {PayloadPadded, PayloadFull, PayloadTruncated}

NoReply == [kind |-> "none"]

Replies ==
    {SendError, JsonReply(NoMessage, None),
     JsonReply(CouldNotLoad, None), JsonReply(CouldNotLoad, Some(PayloadFull))}
        \cup {JsonReply(NoMessage, Some(v)) : v \in Payloads}

\* a request whose URL does not parse is never sent
RepliesFor(root_url) ==
    IF UrlParse(root_url, API_BASE_URL).ok THEN Replies ELSE {NoReply}

Ok(v) == [ok |-> TRUE, val |-> Some(v), err |-> ""]
Err(e) == [ok |-> FALSE, val |-> None, err |-> e]

\* the "message" field is not looked at
request_tts_chunk_NoMessageCheck(chunk_text, speaker, session_id, root_url, reply) ==
    LET url == UrlParse(root_url, API_BASE_URL)
    IN  IF ~url.ok THEN Err(url.err)
        ELSE IF reply.kind = "send_error" THEN Err(ErrTransport)
        ELSE IF reply.v_str = None THEN Err(ErrMissingVStr)
        ELSE Ok(reply.v_str[1])

request_tts_chunk(chunk_text, speaker, session_id, root_url, reply) ==
    LET sanitized_text == sanitize_text(chunk_text)
        url == UrlParse(root_url, API_BASE_URL)
    IN  IF ~url.ok THEN Err(url.err)
        ELSE IF reply.kind = "send_error" THEN Err(ErrTransport)
        ELSE IF reply.message = CouldNotLoad THEN Err(ErrInvalidSession)
        ELSE IF reply.v_str = None THEN Err(ErrMissingVStr)
        ELSE Ok(reply.v_str[1])

\* main.rs:118-133: the req_text of the request that goes out, None when the
\* URL does not parse and nothing is sent
request_text(chunk_text, root_url) ==
    IF UrlParse(root_url, API_BASE_URL).ok
    THEN Some(sanitize_text(chunk_text))
    ELSE None

\* the URL the request is sent to
request_url(chunk_text, speaker, root_url) ==
    AppendPairs(UrlParse(root_url, API_BASE_URL).val, speaker,
                sanitize_text(chunk_text))

\* generate_tts_url: Url::parse(API_BASE_URL).unwrap() on the bare path
generate_tts_url(chunk_text, speaker) ==
    LET sanitized_text == sanitize_text(chunk_text)
        url == UrlParse("", API_BASE_URL)
    IN  IF ~url.ok THEN [panic |-> TRUE, val |-> <<>>]
        ELSE [panic |-> FALSE,
              val |-> AppendPairs(url.val, speaker, sanitized_text)]

\* -------------------------------------------------------------- process_tts
\* a sentence that fills more than half of one request
Sentence == [i \in 1..(BYTE_LIMIT \div 2) |-> "a"] \o <<".">>

RECURSIVE Repeat(_, _)
Repeat(s, k) == IF k = 0 THEN <<>> ELSE s \o Repeat(s, k - 1)

\* one segment of exactly BYTE_LIMIT bytes, two tokens, one of them "+"
PlusText == <<"+", " ">> \o [i \in 1..(BYTE_LIMIT - 3) |-> "a"] \o <<".">>

PipelineTexts == {Repeat(Sentence, k) : k \in 0..MaxSentences} \cup {PlusText}

Unspawned ==
    [state |-> "unspawned", sent |-> None, reply |-> NoReply, data |-> None,
     error |-> ""]

TtsInit ==
    /\ text \in PipelineTexts
    /\ byte_limit = BYTE_LIMIT
    /\ separated_chunks = <<>>
    /\ words = <<>>
    /\ merged_chunks = <<>>
    /\ current_chunk = <<>>
    /\ current_byte_length = 0
    /\ spc = "idle"
    /\ url_only \in BOOLEAN
    /\ env \in [TIKTOK_SESSIONID : {"unset", "sid"},
                TIKTOK_API_BASEURL : {"unset", GoodRoot, BadRoot}]
    /\ env_read = {}
    /\ pc = "start"
    /\ chunks = <<>>
    /\ next_index = 0
    /\ tasks = <<>>
    /\ completed = <<>>
    /\ join_order = <<>>
    /\ audio_chunks = <<>>
    /\ concatenated_base64 = <<>>
    /\ stdout = <<>>
    /\ printed = <<>>
    /\ ret = [status |-> "pending", err |-> ""]

Return(status, err) ==
    /\ ret' = [status |-> status, err |-> err]
    /\ pc' = "done"

\* main.rs:171-178
DryRun ==
    /\ pc = "start"
    /\ url_only
    /\ chunks' = split_text(text, BYTE_LIMIT)
    /\ IF chunks' = <<>>
       THEN /\ printed' = printed
            /\ Return("ok", "")
       ELSE LET u == generate_tts_url(chunks'[1], DefaultSpeaker)
            IN  IF u.panic
                THEN /\ printed' = printed
                     /\ Return("panic", ErrUrlParse)
                ELSE /\ printed' = Append(printed, u.val)
                     /\ Return("ok", "")
    /\ UNCHANGED <<splitVars, url_only, env, env_read, next_index, tasks,
                   completed, join_order, audio_chunks, concatenated_base64,
                   stdout>>

\* the environment is loaded before the url_only branch is looked at
LoadSession_BeforeBranch ==
    /\ pc = "start"
    /\ env_read' = env_read \cup {"TIKTOK_SESSIONID"}
    /\ IF env.TIKTOK_SESSIONID = "unset"
       THEN Return("err", ErrNoSession)
       ELSE pc' = "api_root" /\ ret' = ret
    /\ UNCHANGED <<splitVars, url_only, env, chunks, next_index, tasks,
                   completed, join_order, audio_chunks, concatenated_base64,
                   stdout, printed>>

\* main.rs:181-183
LoadSession ==
    /\ pc = "start"
    /\ ~url_only
    /\ env_read' = env_read \cup {"TIKTOK_SESSIONID"}
    /\ IF env.TIKTOK_SESSIONID = "unset"
       THEN Return("err", ErrNoSession)
       ELSE pc' = "api_root" /\ ret' = ret
    /\ UNCHANGED <<splitVars, url_only, env, chunks, next_index, tasks,
                   completed, join_order, audio_chunks, concatenated_base64,
                   stdout, printed>>

\* main.rs:185
LoadApiRoot ==
    /\ pc = "api_root"
    /\ env_read' = env_read \cup {"TIKTOK_API_BASEURL"}
    /\ IF env.TIKTOK_API_BASEURL = "unset"
       THEN Return("err", ErrNoRoot)
       ELSE pc' = "split" /\ ret' = ret
    /\ UNCHANGED <<splitVars, url_only, env, chunks, next_index, tasks,
                   completed, join_order, audio_chunks, concatenated_base64,
                   stdout, printed>>

\* main.rs:186-195
SplitChunks ==
    /\ pc = "split"
    /\ chunks' = split_text(text, BYTE_LIMIT)
    /\ audio_chunks' = [i \in 0..(Len(chunks') - 1) |-> None]
    /\ tasks' = [i \in 0..(Len(chunks') - 1) |-> Unspawned]
    /\ pc' = IF Len(chunks') = 0 THEN "collect" ELSE "spawn"
    /\ UNCHANGED <<splitVars, url_only, env, env_read, next_index, completed,
                   join_order, concatenated_base64, stdout, printed, ret>>

\* the spawn loop stops one index early
Spawn_SkipsLast ==
    /\ pc = "spawn"
    /\ next_index < Len(chunks)
    /\ tasks' = [tasks EXCEPT ![next_index].state = "running"]
    /\ next_index' = next_index + 1
    /\ pc' = IF next_index' >= Len(chunks) - 1 THEN "collect" ELSE "spawn"
    /\ UNCHANGED <<splitVars, url_only, env, env_read, chunks, completed,
                   join_order, audio_chunks, concatenated_base64, stdout,
                   printed, ret>>

\* main.rs:197-225: one iteration of the spawn loop
Spawn ==
    /\ pc = "spawn"
    /\ next_index < Len(chunks)
    /\ tasks' = [tasks EXCEPT ![next_index].state = "running"]
    /\ next_index' = next_index + 1
    /\ pc' = IF next_index' = Len(chunks) THEN "collect" ELSE "spawn"
    /\ UNCHANGED <<splitVars, url_only, env, env_read, chunks, completed,
                   join_order, audio_chunks, concatenated_base64, stdout,
                   printed, ret>>

\* main.rs:203-224: the task of one index runs to its end
TaskRun(index) ==
    /\ tasks[index].state = "running"
    /\ \E reply \in RepliesFor(env.TIKTOK_API_BASEURL) :
          LET r == request_tts_chunk(chunks[index + 1], DefaultSpeaker,
                                     env.TIKTOK_SESSIONID,
                                     env.TIKTOK_API_BASEURL, reply)
          IN  tasks' = [tasks EXCEPT ![index] =
                           [state |-> "finished",
                            sent |-> request_text(chunks[index + 1],
                                                  env.TIKTOK_API_BASEURL),
                            reply |-> reply,
                            data |-> r.val, error |-> r.err]]
    /\ completed' = Append(completed, index)
    /\ UNCHANGED <<splitVars, url_only, env, env_read, pc, chunks, next_index,
                   join_order, audio_chunks, concatenated_base64, stdout,
                   printed, ret>>

\* a task that panics ends with a JoinError
TaskPanic(index) ==
    /\ tasks[index].state = "running"
    /\ tasks' = [tasks EXCEPT ![index].state = "panicked"]
    /\ completed' = Append(completed, index)
    /\ UNCHANGED <<splitVars, url_only, env, env_read, pc, chunks, next_index,
                   join_order, audio_chunks, concatenated_base64, stdout,
                   printed, ret>>

\* the result lands in the slot of its arrival, not of its index
StoreResult_ArrivalOrder(slots, index, data) ==
    [slots EXCEPT ![Len(join_order)] = data]

\* the result is pushed: it lands in the lowest slot that is still None
StoreResult_FirstFree(slots, index, data) ==
    [slots EXCEPT ![SetMin({i \in DOMAIN slots : slots[i] = None} \cup {index})]
                      = data]

\* main.rs:231
StoreResult(slots, index, data) == [slots EXCEPT ![index] = data]

\* main.rs:228-237: one iteration of the collect loop
JoinNext ==
    /\ pc = "collect"
    /\ completed # <<>>
    /\ LET index == Head(completed)
       IN  /\ audio_chunks' =
                 IF tasks[index].state = "finished"
                 THEN StoreResult(audio_chunks, index, tasks[index].data)
                 ELSE audio_chunks
           /\ join_order' = Append(join_order, index)
    /\ completed' = Tail(completed)
    /\ UNCHANGED <<splitVars, url_only, env, env_read, pc, chunks, next_index,
                   tasks, concatenated_base64, stdout, printed, ret>>

\* the loop also ends at the first result without a payload (fail fast)
JoinNone_FirstFailure ==
    /\ pc = "collect"
    /\ \/ Len(join_order) = Len(chunks)
       \/ \E k \in 1..Len(join_order) : audio_chunks[join_order[k]] = None
    /\ pc' = "check"
    /\ UNCHANGED <<splitVars, url_only, env, env_read, chunks, next_index,
                   tasks, completed, join_order, audio_chunks,
                   concatenated_base64, stdout, printed, ret>>

\* main.rs:228: join_next() on the empty JoinSet ends the loop
JoinNone ==
    /\ pc = "collect"
    /\ Len(join_order) = Len(chunks)
    /\ pc' = "check"
    /\ UNCHANGED <<splitVars, url_only, env, env_read, chunks, next_index,
                   tasks, completed, join_order, audio_chunks,
                   concatenated_base64, stdout, printed, ret>>

\* `all` in place of `any`
AnyFailed_All(slots) == \A i \in DOMAIN slots : slots[i] = None

\* main.rs:240
AnyFailed(slots) == \E i \in DOMAIN slots : slots[i] = None

\* main.rs:240-242
CheckChunks ==
    /\ pc = "check"
    /\ IF AnyFailed(audio_chunks)
       THEN Return("err", ErrSomeFailed)
       ELSE pc' = "reassemble" /\ ret' = ret
    /\ UNCHANGED <<splitVars, url_only, env, env_read, chunks, next_index,
                   tasks, completed, join_order, audio_chunks,
                   concatenated_base64, stdout, printed>>

\* main.rs:245-249: the Some(..) slots in index order, joined with ""
RECURSIVE JoinSlots(_, _)
JoinSlots(slots, i) ==
    IF i \notin DOMAIN slots THEN <<>>
    ELSE (IF slots[i] = None THEN <<>> ELSE slots[i][1])
             \o JoinSlots(slots, i + 1)

\* main.rs:245-257
Reassemble ==
    /\ pc = "reassemble"
    /\ concatenated_base64' = JoinSlots(audio_chunks, 0)
    /\ LET audio_data == decode(concatenated_base64')
       IN  IF audio_data.ok
           THEN /\ stdout' = stdout \o audio_data.bytes
                /\ Return("ok", "")
           ELSE /\ stdout' = stdout
                /\ Return("err", ErrDecode)
    /\ UNCHANGED <<splitVars, url_only, env, env_read, chunks, next_index,
                   tasks, completed, join_order, audio_chunks, printed>>

TtsNext ==
    \/ DryRun
    \/ LoadSession
    \/ LoadApiRoot
    \/ SplitChunks
    \/ Spawn
    \/ \E index \in DOMAIN tasks : TaskRun(index)
    \/ \E index \in DOMAIN tasks : TaskPanic(index)
    \/ JoinNext
    \/ JoinNone
    \/ CheckChunks
    \/ Reassemble

TtsSpec == TtsInit /\ [][TtsNext]_vars

\* ------------------------------------------------ properties of split_text
RECURSIVE Concat(_)
Concat(ss) == IF ss = <<>> THEN <<>> ELSE Head(ss) \o Concat(Tail(ss))

NotWhitespace(c) == ~IsWhitespace(c)

\* a text with all its whitespace deleted
Strip(s) == SelectSeq(s, NotWhitespace)

WhitespaceFree(s) == \A k \in 1..Len(s) : ~IsWhitespace(s[k])

IsSubstring(u, s) ==
    \E p \in 0..(Len(s) - Len(u)) : SubSeq(s, p + 1, p + Len(u)) = u

Returned == spc = "done"

\* positions in the input of its non-whitespace characters, in order
NonWsIdx(s) ==
    LET Keep(i) == ~IsWhitespace(s[i])
    IN  SelectSeq([i \in 1..Len(s) |-> i], Keep)

\* the segment boundaries, counted in non-whitespace characters
SegCuts(segs) ==
    {Len(Strip(Concat(SubSeq(segs, 1, k)))) : k \in 1..(Len(segs) - 1)}

\* the places between two neighbouring characters of one whitespace-free token
TokenInner(s) ==
    LET idx == NonWsIdx(s)
    IN  {p \in 1..(Len(idx) - 1) : idx[p + 1] = idx[p] + 1}

\* those of them that do not directly follow a boundary character
RunInner(s) ==
    LET idx == NonWsIdx(s)
    IN  {p \in TokenInner(s) : s[idx[p]] \notin PunctuationClass}

HasBoundary(s) == \E k \in 1..Len(s) : s[k] \in PunctuationClass

\* C1: every returned segment is within the byte limit, except a segment
\* that is exactly one whitespace-free token longer than the limit.
C1_ByteLimit ==
    Returned =>
        \A i \in 1..Len(merged_chunks) :
            \/ ByteLen(merged_chunks[i]) <= byte_limit
            \/ /\ WhitespaceFree(merged_chunks[i])
               /\ ByteLen(merged_chunks[i]) > byte_limit

\* C1 witness: a result holding an oversized token, a segment that fills the
\* limit exactly, and a segment of several words
C1_Witness ==
    /\ Returned
    /\ \E i \in 1..Len(merged_chunks) : ByteLen(merged_chunks[i]) > byte_limit
    /\ \E i \in 1..Len(merged_chunks) :
          /\ ByteLen(merged_chunks[i]) = byte_limit
          /\ ~WhitespaceFree(merged_chunks[i])

\* C2: the segments, concatenated in order and stripped of whitespace, are
\* the input stripped of whitespace.
C2_Coverage ==
    Returned => Strip(Concat(merged_chunks)) = Strip(text)

\* C2 witness: a result of several segments, one of them re-joined from words
C2_Witness ==
    /\ Returned
    /\ Len(merged_chunks) >= 2
    /\ \E i \in 1..Len(merged_chunks) : ~IsSubstring(merged_chunks[i], text)
    /\ Strip(text) # <<>>

\* C3 as stated: no segment boundary falls inside a whitespace-free token of
\* the input, and a single whitespace-free token longer than the limit comes
\* back as one segment.
C3_Original ==
    Returned =>
        /\ SegCuts(merged_chunks) \cap TokenInner(text) = {}
        /\ (text # <<>> /\ WhitespaceFree(text) /\ ByteLen(text) > byte_limit)
               => merged_chunks = <<text>>

\* C3 amended: a whitespace-free token is cut only directly after one of its
\* boundary characters, and a single whitespace-free token without boundary
\* characters that is longer than the limit comes back as one segment.
C3_NoSplitInsideRun ==
    Returned =>
        /\ SegCuts(merged_chunks) \cap RunInner(text) = {}
        /\ (text # <<>> /\ WhitespaceFree(text) /\ ~HasBoundary(text)
                /\ ByteLen(text) > byte_limit)
               => merged_chunks = <<text>>

\* C3 witness: a single oversized token returned whole
C3_Witness ==
    /\ Returned
    /\ Len(text) >= 2
    /\ WhitespaceFree(text) /\ ~HasBoundary(text)
    /\ ByteLen(text) > byte_limit
    /\ merged_chunks = <<text>>

\* C4 as stated: every segment is a non-empty contiguous substring of the
\* input.
C4_Original ==
    Returned =>
        \A i \in 1..Len(merged_chunks) :
            /\ merged_chunks[i] # <<>>
            /\ IsSubstring(merged_chunks[i], text)

\* C4 amended: every segment is non-empty and, whitespace deleted on both
\* sides, a contiguous substring of the input.
C4_SubstringModuloWhitespace ==
    Returned =>
        \A i \in 1..Len(merged_chunks) :
            /\ merged_chunks[i] # <<>>
            /\ IsSubstring(Strip(merged_chunks[i]), Strip(text))

\* C4 witness: a segment re-joined from words that is no substring of the
\* input
C4_Witness ==
    /\ Returned
    /\ \E i \in 1..Len(merged_chunks) :
          /\ ~IsSubstring(merged_chunks[i], text)
          /\ Strip(merged_chunks[i]) # <<>>

\* C5: an input of whitespace only yields the empty sequence.
C5_WhitespaceOnly ==
    (Returned /\ text # <<>> /\ Strip(text) = <<>>) => merged_chunks = <<>>

\* C6 as stated: "A. B. C." with limit 5 yields "A. ", "B. ", "C.".
C6_Original ==
    (Returned /\ text = ScenarioABC /\ byte_limit = 5) =>
        merged_chunks = << <<"A", ".", " ">>, <<"B", ".", " ">>, <<"C", ".">> >>

\* C6 amended: "A. B. C." with limit 5 yields "A. B.", " C.".
C6_Scenario ==
    (Returned /\ text = ScenarioABC /\ byte_limit = 5) =>
        merged_chunks = << <<"A", ".", " ", "B", ".">>, <<" ", "C", ".">> >>

\* C6 witness: the scenario has run
C6_Witness ==
    /\ Returned /\ text = ScenarioABC /\ byte_limit = 5
    /\ Len(merged_chunks) = 2

\* ------------------------------------------------ properties of process_tts
\* process_tts returned after the fan-out and the join barrier
Fetched ==
    /\ pc = "done"
    /\ ~url_only
    /\ ret.err \notin {ErrNoSession, ErrNoRoot}

CallSucceeded(i) == tasks[i].state = "finished" /\ tasks[i].data # None

CallFailed(i) ==
    \/ tasks[i].state = "panicked"
    \/ tasks[i].state = "finished" /\ tasks[i].data = None

AllSucceeded == \A i \in DOMAIN tasks : CallSucceeded(i)

\* the payloads the calls returned, by ascending index
PayloadsByIndex == JoinSlots([i \in DOMAIN tasks |-> tasks[i].data], 0)

\* each payload decoded on its own, the bytes joined by ascending index
RECURSIVE DecodedByIndex(_)
DecodedByIndex(i) ==
    IF i \notin DOMAIN tasks THEN <<>>
    ELSE decode(tasks[i].data[1]).bytes \o DecodedByIndex(i + 1)

\* C7: when all calls succeed the encoded payloads are put together by
\* ascending index, and the outcome is a function of the payloads alone,
\* whatever the order in which the calls completed.
C7_ReassemblyOrder ==
    (Fetched /\ AllSucceeded) =>
        /\ concatenated_base64 = PayloadsByIndex
        /\ LET d == decode(PayloadsByIndex)
           IN  IF d.ok THEN ret.status = "ok" /\ stdout = d.bytes
               ELSE ret.status = "err" /\ stdout = <<>>

\* C7 witness: several calls with different payloads completed in exactly
\* the reverse index order, and the audio was written
C7_Witness ==
    /\ Fetched /\ AllSucceeded
    /\ Len(chunks) >= 2
    /\ \A k \in 1..Len(join_order) : join_order[k] = Len(chunks) - k
    /\ tasks[0].data # tasks[Len(chunks) - 1].data
    /\ ret.status = "ok"
    /\ stdout # <<>>

\* C8: once a call has ended without a payload no audio byte is written, and
\* process_tts returns an error.
C8_NoPartialAudio ==
    (\E i \in DOMAIN tasks : CallFailed(i)) =>
        /\ stdout = <<>>
        /\ pc = "done" => ret.status = "err"

\* C8 witness: one call failed, another delivered a payload that decodes
C8_Witness ==
    /\ pc = "done"
    /\ \E i \in DOMAIN tasks : CallFailed(i)
    /\ \E i \in DOMAIN tasks :
          CallSucceeded(i) /\ decode(tasks[i].data[1]).ok
    /\ ret.status = "err"

\* C9: when every call returned a payload that decodes on its own, the
\* operation succeeds and writes the separately decoded payloads in index
\* order.
C9_IndependentDecode ==
    (Fetched /\ AllSucceeded
        /\ \A i \in DOMAIN tasks : decode(tasks[i].data[1]).ok) =>
        /\ ret.status = "ok"
        /\ stdout = DecodedByIndex(0)

RepliedCouldNotLoad(i) ==
    tasks[i].reply.kind = "json" /\ tasks[i].reply.message = CouldNotLoad

\* C10 as stated: a call answered with the "could not load speech" message
\* makes process_tts return the distinguished invalid-session error.
C10_Original ==
    (pc = "done" /\ \E i \in DOMAIN tasks : RepliedCouldNotLoad(i)) =>
        /\ ret.status = "err"
        /\ ret.err = ErrInvalidSession

\* C10 amended: a call answered with the "could not load speech" message
\* fails in request_tts_chunk with the distinguished invalid-session error,
\* payload or not; the index gets no payload and process_tts returns the
\* generic some-chunks-failed error.
C10_CredentialError ==
    \A i \in DOMAIN tasks :
        RepliedCouldNotLoad(i) =>
            /\ tasks[i].error = ErrInvalidSession
            /\ tasks[i].error \notin {ErrTransport, ErrMissingVStr, ErrUrlParse}
            /\ tasks[i].data = None
            /\ pc = "done" => (ret.status = "err" /\ ret.err = ErrSomeFailed)

\* C10 witness: process_tts returned after a call was answered with the
\* message next to a payload, while another call succeeded
C10_Witness ==
    /\ pc = "done"
    /\ \E i \in DOMAIN tasks :
          tasks[i].reply = JsonReply(CouldNotLoad, Some(PayloadFull))
    /\ \E i \in DOMAIN tasks : CallSucceeded(i)
    /\ ret.err = ErrSomeFailed

\* C11: a dry run over a non-empty segment sequence returns Ok and has
\* printed exactly one descriptor, built from the sanitized first segment and
\* the speaker.
C11_DryRunDescriptor ==
    (pc = "done" /\ url_only /\ chunks # <<>>) =>
        /\ ret.status = "ok"
        /\ printed = <<AppendPairs(
                          [root |-> "", path |-> API_BASE_URL, query |-> <<>>],
                          DefaultSpeaker, sanitize_text(chunks[1]))>>

\* C12: the req_text of every request sent is within BYTE_LIMIT bytes, unless
\* its segment is one whitespace-free token that is itself over the limit.
C12_RequestWithinLimit ==
    \A i \in DOMAIN tasks :
        tasks[i].sent # None =>
            \/ ByteLen(tasks[i].sent[1]) <= BYTE_LIMIT
            \/ /\ WhitespaceFree(chunks[i + 1])
               /\ ByteLen(chunks[i + 1]) > BYTE_LIMIT

\* the indexes join_next() has handed out
Joined == {join_order[k] : k \in 1..Len(join_order)}

\* C13: once process_tts checks the slots, writes audio or returns, every
\* launched call has run to its end (with a payload, an error or a panic) and
\* has been joined; no call is left unspawned, running or unjoined.
C13_JoinAllBarrier ==
    (pc \in {"check", "reassemble", "done"} \/ stdout # <<>>
         \/ ret.status # "pending") =>
        /\ completed = <<>>
        /\ \A i \in DOMAIN tasks :
              /\ tasks[i].state \in {"finished", "panicked"}
              /\ i \in Joined

\* C13 witness: the call joined first had failed, a sibling joined after it
\* delivered its payload, and only then process_tts returned the error
C13_Witness ==
    /\ Fetched
    /\ Len(chunks) >= 2
    /\ CallFailed(join_order[1])
    /\ CallSucceeded(join_order[Len(join_order)])
    /\ ret.status = "err"

\* both environment variables are set, so process_tts gets past loading them
EnvLoaded ==
    /\ env.TIKTOK_SESSIONID # "unset"
    /\ env.TIKTOK_API_BASEURL # "unset"

\* C14: for the empty text, with the environment loaded, the pipeline that
\* is not a dry run gets no segment from split_text, launches no call and
\* returns Ok with no byte written.
C14_EmptyInput ==
    (text = <<>> /\ ~url_only /\ EnvLoaded) =>
        /\ tasks = <<>>
        /\ next_index = 0
        /\ completed = <<>>
        /\ pc \notin {"start", "api_root", "split"} => chunks = <<>>
        /\ stdout = <<>>
        /\ pc = "done" => (ret.status = "ok" /\ concatenated_base64 = <<>>)

\* C14 witness: the pipeline has returned for the empty text
C14_Witness ==
    /\ text = <<>> /\ ~url_only /\ EnvLoaded
    /\ pc = "done"
    /\ env_read = {"TIKTOK_SESSIONID", "TIKTOK_API_BASEURL"}
    /\ ret.status = "ok"

\* how often x occurs in the sequence q
Count(q, x) == Cardinality({k \in 1..Len(q) : q[k] = x})

\* C15: outside a dry run a call has been launched for exactly the indexes
\* below the spawn position, each launched call ends at most once (no second
\* attempt), and all calls are launched before the first result is awaited.
C15_OneCallPerIndex ==
    ~url_only =>
        /\ \A i \in DOMAIN tasks :
              /\ (tasks[i].state # "unspawned") <=> (i < next_index)
              /\ Count(join_order \o completed, i) =
                     IF tasks[i].state \in {"finished", "panicked"} THEN 1 ELSE 0
        /\ (pc \in {"collect", "check", "reassemble"} \/ join_order # <<>>
                \/ Fetched) =>
              /\ next_index = Len(chunks)
              /\ DOMAIN tasks = 0..(Len(chunks) - 1)

\* C15 witness: all calls of a text of several segments are in flight at
\* once, none has ended
C15_Witness ==
    /\ ~url_only
    /\ pc = "collect"
    /\ Len(chunks) >= 2
    /\ \A i \in DOMAIN tasks : tasks[i].state = "running"
    /\ completed = <<>> /\ join_order = <<>>

\* C16: a unit within the limit whose length added to the running length
\* does not exceed the limit (equality included) is appended and nothing is
\* flushed; merged_chunks grows in this branch only when the sum is strictly
\* over the limit.
C16_ExactFitAppends ==
    [][(spc = "loop" /\ separated_chunks # <<>>
            /\ ByteLen(Head(separated_chunks)) <= byte_limit) =>
          LET unit == Head(separated_chunks)
              sum  == current_byte_length + ByteLen(unit)
          IN  /\ sum <= byte_limit =>
                    /\ merged_chunks' = merged_chunks
                    /\ current_chunk' = current_chunk \o unit
                    /\ current_byte_length' = sum
              /\ merged_chunks' # merged_chunks => sum > byte_limit]_vars

\* C16 witness: a text all of whose units are within the limit; nothing was
\* flushed, and the segment under construction holds at least two units that
\* fill the limit exactly
C16_Witness ==
    /\ spc = "loop"
    /\ merged_chunks = <<>>
    /\ current_byte_length = byte_limit
    /\ current_chunk = SubSeq(text, 1, Len(current_chunk))
    /\ Len(find_iter(current_chunk, 1)) >= 2
    /\ LET units == find_iter(text, 1)
       IN  \A k \in 1..Len(units) : ByteLen(units[k]) <= byte_limit

\* how often the slot of index i has been written: once per join of its task,
\* unless the task ended in a JoinError (main.rs:233-235 writes nothing)
Writes(i) ==
    IF tasks[i].state = "finished" THEN Count(join_order, i) ELSE 0

\* the slot holds the outcome of its own call once that call is joined, and
\* the initial None before
SlotHoldsOwnOutcome(i) ==
    audio_chunks[i] =
        IF i \in Joined /\ tasks[i].state = "finished"
        THEN tasks[i].data ELSE None

\* C17 as stated: every slot holds the outcome of its own call only, each
\* slot is written exactly once by the time the slots are checked, and every
\* slot is written before the slots are concatenated.
C17_Original ==
    \A i \in DOMAIN audio_chunks :
        /\ SlotHoldsOwnOutcome(i)
        /\ Writes(i) <= 1
        /\ (pc \in {"check", "reassemble"} \/ Fetched) => Writes(i) = 1

\* C17 amended: every slot holds the outcome of its own call only and is
\* written at most once; by the time the slots are checked it is written
\* exactly once for a call that returned and not at all for a call whose
\* task ended in a join error; every slot is written before the slots are
\* concatenated.
C17_SlotOwnership ==
    \A i \in DOMAIN audio_chunks :
        /\ SlotHoldsOwnOutcome(i)
        /\ Count(join_order, i) <= 1
        /\ (pc \in {"check", "reassemble"} \/ Fetched) =>
              /\ tasks[i].state \in {"finished", "panicked"}
              /\ Writes(i) = IF tasks[i].state = "finished" THEN 1 ELSE 0
              /\ tasks[i].state = "panicked" => audio_chunks[i] = None
        /\ (pc = "reassemble" \/ concatenated_base64 # <<>>
                \/ stdout # <<>>) => Writes(i) = 1

\* C17 witness: the slots are about to be concatenated; the calls were joined
\* out of index order with different payloads
C17_Witness ==
    /\ pc = "reassemble"
    /\ Len(chunks) >= 2
    /\ join_order[1] # 0
    /\ audio_chunks[0] # audio_chunks[1]
    /\ \A i \in DOMAIN audio_chunks : audio_chunks[i] = tasks[i].data

\* C18: in a dry run no environment variable is read, no task is launched
\* and no audio is written, at any point up to and including the return.
C18_DryRunNoNetwork ==
    url_only =>
        /\ env_read = {}
        /\ tasks = <<>>
        /\ next_index = 0
        /\ completed = <<>> /\ join_order = <<>>
        /\ stdout = <<>>

\* C18 witness: a dry run over several segments has ended, with both
\* environment variables set and neither read
C18_Witness ==
    /\ url_only
    /\ pc = "done"
    /\ Len(chunks) >= 2
    /\ EnvLoaded
    /\ env_read = {}

\* C19: in every state of split_text the counter current_byte_length is the
\* UTF-8 byte length of current_chunk.
C19_CounterMatches == current_byte_length = ByteLen(current_chunk)

\* C19 witness: inside the word loop, a word was joined with a space onto a
\* segment that the unit branch had started (it ends in a boundary character
\* before the join space)
C19_Witness ==
    /\ spc = "words"
    /\ ~IsSubstring(current_chunk, text)
    /\ \E k \in 1..(Len(current_chunk) - 2) :
          /\ current_chunk[k] \in PunctuationClass
          /\ current_chunk[k + 1] = " "
          /\ ~IsWhitespace(current_chunk[k + 2])
    /\ current_byte_length = ByteLen(current_chunk)
====
